---- MODULE Spec2Model ----
(***************************************************************************)
(* Model of the Connection class of src/src/lib/connection.ts: one SSH    *)
(* client, the devtools sub-channel, the pending-request map and the      *)
(* connect()/install()/disconnect() sequences.  Node runs every handler   *)
(* and the promise continuations it releases to completion before the     *)
(* next event, so one action is one event-loop task.                      *)
(* On top of it, the Device of src/src/lib/device.ts: the one that holds  *)
(* a Connection and caches the events it forwards (DeviceSpec), and the   *)
(* one that holds a phoenix Socket over a WebSocket (SocketSpec).         *)
(***************************************************************************)
EXTENDS Integers, FiniteSets, Sequences, TLC

\* ---------------------------------------------------------------- bounds
MaxRequests == 2        \* request() calls that pass the connected check
MaxNotConnected == 1    \* request() calls made while not connected
MaxConnectCalls == 1    \* connect() calls
MaxDisconnects == 1     \* disconnect() calls
MaxExitCode == 1        \* install script exit codes 0..MaxExitCode
MaxEvents == 2          \* event envelopes the device pushes
MaxPayload == 2         \* distinct event payloads 1..MaxPayload
MaxDevices == 3         \* ids a registry can hand out
MaxApplied == 2         \* calls of a function followed in a row
MaxHostLen == 6         \* characters of a host[:port] string
MaxClock == 2           \* milliseconds the clock advances while tokens are signed

\* ------------------------------------------------------ program constants
ReconnectMaxAttempts == 5
FirstRequestId == 1

RequestIds == FirstRequestId..(FirstRequestId + MaxRequests - 1)
ExitCodes == 0..MaxExitCode
NoExit == 0 - 1   \* no exit code seen
SubsysErrors == {"UnableToStartSubsystem", "ChannelOpenFailure"}

VARIABLES
  connectionState,   \* Connection._connectionState
  channel,           \* Connection.channel: 0 = null, else the socket generation it was opened on
  requests,          \* keys of Connection.requests; requests[k] holds the resolvers of call k
  nextRequestId,     \* Connection.nextRequestId
  reconnectOnClose,  \* Connection._reconnectOnClose
  reconnectAttempts, \* Connection._reconnectAttempts
  reconnectTimer,    \* Connection._reconnectTimer is armed
  sock,              \* the ssh2 client's socket: "ending" after end(), "closing" once
                     \* it is destroyed or has failed and its close event is due
  sockGen,           \* number of sockets the client has opened
  connectQueued,     \* client.connect() waits for the old socket to close
  connectPc,         \* position of the connect() call in progress
  connectResult,     \* settlement of the last connect() call
  connectError,      \* <<kind, code>> the last connect() call rejected with
  connectCalls,      \* number of connect() calls made
  firstFailure,      \* error of the first createDevServerChannel() of this connect()
  installExit,       \* exit code of the install script run by this connect()
  installCount,      \* install() calls of this connect()
  reconnectCount,    \* client.end() + clientConnect() of this connect()
  retryCount,        \* second createDevServerChannel() calls of this connect()
  outcome,           \* settlement of the promise request() returned, per call
  resolvedWith,      \* requestId field of the response the call resolved with
  timer,             \* setTimeoutAsync timer of the call is armed
  written,           \* request ids the device has received
  responded,         \* request ids the device has answered
  notConnectedCalls, \* request() calls rejected with "Not connected"
  destroyTimers,     \* forced-destroy timers armed by disconnect()
  disconnectCalls,   \* number of disconnect() calls made
  delivered,         \* event envelopes <<event, data>> handed to the Device, in wire order
  metadata,          \* Device._metadata: 0 = null, else the payload
  telemetry,         \* Device._telemetry: 0 = null, else the payload
  alarms,            \* Device._alarms: 0 = the empty list, else the payload
  emitted,           \* notifications <<emitter, event, value>> of the latest delivery
  ws,                \* socket Device: readyState of the WebSocket the Socket holds
  connectErrorFlag,  \* socket Device: Device._connectError
  attemptDone,       \* socket Device: `done` of the connect() call
  attemptListeners,  \* socket Device: the listeners of the connect() call are on the socket
  deviceConnectResult, \* socket Device: settlement of the promise connect() returned
  deviceConnectTimer,  \* socket Device: the setTimeoutAsync timer of connect() is armed
  socketReconnectDue,  \* socket Device: the Socket will reconnect after an unclean close
  dirtyModules,      \* socket Device: Device._dirtyModules: 0 = the empty list, a payload,
                     \* or Undefined
  deviceCall,        \* socket Device: progress of the disconnect() and update() calls
  descriptor,        \* Device._id, _host, _label, _tokenSecret
  compile,           \* a compile response and what compileCode() made of it
  registry,          \* DeviceManager.devices and what its last call returned
  applied            \* the calls made of a function of the program: <<name, input, result>>

vars == <<connectionState, channel, requests, nextRequestId, reconnectOnClose,
          reconnectAttempts, reconnectTimer, sock, sockGen, connectQueued,
          connectPc, connectResult, connectError, connectCalls, firstFailure,
          installExit, installCount, reconnectCount, retryCount, outcome,
          resolvedWith, timer, written, responded, notConnectedCalls,
          destroyTimers, disconnectCalls, delivered, metadata, telemetry,
          alarms, emitted, ws, connectErrorFlag, attemptDone, attemptListeners,
          deviceConnectResult, deviceConnectTimer, socketReconnectDue,
          dirtyModules, deviceCall, descriptor, compile, registry, applied>>

connVars == <<connectPc, connectResult, connectError, connectCalls, firstFailure,
              installExit, installCount, reconnectCount, retryCount>>
reqVars == <<requests, nextRequestId, outcome, resolvedWith, timer, written,
             responded, notConnectedCalls>>
reconnVars == <<reconnectOnClose, reconnectAttempts, reconnectTimer>>
discVars == <<destroyTimers, disconnectCalls>>
sessionVars == <<connectionState, channel, sock, sockGen, connectQueued>>
devVars == <<delivered, metadata, telemetry, alarms, emitted>>
phxVars == <<ws, connectErrorFlag, attemptDone, attemptListeners,
             deviceConnectResult, deviceConnectTimer, socketReconnectDue>>
appVars == <<dirtyModules, deviceCall, descriptor, compile, registry, applied>>
deviceVars == <<devVars, phxVars, appVars>>

NoError == <<"none", NoExit>>
Undefined == 0 - 1   \* the value of a property that is not there

\* the descriptor the Device is constructed with
FirstDescriptor == [id |-> "id1", host |-> "h1", label |-> "l1", tokenSecret |-> "null"]

\* no disconnect() and no update() made
NoCall == [disconnect |-> "idle", update |-> "idle", reconnect |-> FALSE,
           before |-> "none", timer |-> FALSE,
           args |-> <<"undefined", "undefined", "undefined">>,
           old |-> FirstDescriptor,
           overlap |-> "idle", opened |-> 0,
           replaced |-> [live |-> FALSE, sock |-> "none", state |-> "closed",
                         destroy |-> FALSE]]

\* no compile response seen
NoCompile == [variant |-> "none", status |-> "none", result |-> 0, dirty |-> 0,
              returned |-> [status |-> "none", diagnostics |-> 0,
                            thrown |-> FALSE]]

\* a registry without devices
NoDevices == [devices |-> {}, disconnected |-> {}, removing |-> {},
              returned |-> 0, last |-> [op |-> "none", id |-> 0],
              imported |-> <<>>]

\* a Device after construction: empty caches, no WebSocket, no call made
DeviceIdle ==
  /\ delivered = <<>>
  /\ metadata = 0
  /\ telemetry = 0
  /\ alarms = 0
  /\ emitted = <<>>
  /\ ws = "none"
  /\ connectErrorFlag = FALSE
  /\ attemptDone = FALSE
  /\ attemptListeners = FALSE
  /\ deviceConnectResult = "none"
  /\ deviceConnectTimer = FALSE
  /\ socketReconnectDue = FALSE
  /\ deviceCall = NoCall
  /\ registry = NoDevices

\* the Device the model follows, after construction
DeviceInit ==
  /\ DeviceIdle
  /\ descriptor = FirstDescriptor

\* no compile response yet, no dirty modules
CompileIdle ==
  /\ compile = NoCompile
  /\ dirtyModules = 0
  /\ applied = <<>>

\* the Connection after construction
ConnectionInit ==
  /\ connectionState = "closed"
  /\ channel = 0
  /\ requests = {}
  /\ nextRequestId = FirstRequestId
  /\ reconnectOnClose = FALSE
  /\ reconnectAttempts = 0
  /\ reconnectTimer = FALSE
  /\ sock = "none"
  /\ sockGen = 0
  /\ connectQueued = FALSE
  /\ connectPc = "idle"
  /\ connectResult = "none"
  /\ connectError = NoError
  /\ connectCalls = 0
  /\ firstFailure = "none"
  /\ installExit = NoExit
  /\ installCount = 0
  /\ reconnectCount = 0
  /\ retryCount = 0
  /\ outcome = [i \in RequestIds |-> "none"]
  /\ resolvedWith = [i \in RequestIds |-> 0]
  /\ timer = [i \in RequestIds |-> FALSE]
  /\ written = {}
  /\ responded = {}
  /\ notConnectedCalls = 0
  /\ destroyTimers = 0
  /\ disconnectCalls = 0

Init == ConnectionInit /\ DeviceInit /\ CompileIdle

\* ------------------------------------------------------------- request()

\* a connected check that always passes
connectedAlways == TRUE

\* get connected()
connected == connectionState = "open"

\* a settlement that overwrites one already made
SettleOverwrite(out, id, v) == [out EXCEPT ![id] = v]

\* Promise.race / promise settlement: a future settles once, later settlements are ignored
Settle(out, id, v) == IF out[id] = "pending" THEN [out EXCEPT ![id] = v] ELSE out

\* a request timer that is never armed
setTimeoutNever(t, id) == t

\* setTimeoutAsync(timeout, "reject"): arms the timer that rejects with TimeoutError
setTimeoutAsync(t, id) == [t EXCEPT ![id] = TRUE]

\* the channel is the sub-channel of the socket that is up now
ChannelLive == channel # 0 /\ channel = sockGen /\ sock = "ready"

\* Connection.request(), called while not connected: throws "Not connected"
\* Connection.request(), connected: allocates the id, registers the resolvers,
\* writes the command; a null channel makes the executor throw a TypeError,
\* which rejects the promise, and the finally() deletes the entry again.
Request ==
  IF ~connected
  THEN /\ notConnectedCalls < MaxNotConnected
       /\ notConnectedCalls' = notConnectedCalls + 1
       /\ UNCHANGED <<requests, nextRequestId, outcome, resolvedWith, timer,
                      written, responded>>
       /\ UNCHANGED <<connectionState, channel, sock, sockGen, connectQueued>>
       /\ UNCHANGED <<connVars, reconnVars, discVars, deviceVars>>
  ELSE /\ nextRequestId \in RequestIds
       /\ LET requestId == nextRequestId IN
          /\ nextRequestId' = nextRequestId + 1
          /\ timer' = setTimeoutAsync(timer, requestId)
          /\ IF channel = 0
             THEN /\ outcome' = [outcome EXCEPT ![requestId] = "typeError"]
                  /\ UNCHANGED <<requests, written>>
             ELSE /\ outcome' = [outcome EXCEPT ![requestId] = "pending"]
                  /\ requests' = requests \cup {requestId}
                  /\ written' = IF ChannelLive THEN written \cup {requestId} ELSE written
       /\ UNCHANGED <<resolvedWith, responded, notConnectedCalls>>
       /\ UNCHANGED <<connectionState, channel, sock, sockGen, connectQueued>>
       /\ UNCHANGED <<connVars, reconnVars, discVars, deviceVars>>

\* the setTimeoutAsync timer of a request fires: the race rejects with TimeoutError;
\* the finally() that deletes the entry hangs on the inner promise, which is not settled
RequestTimeout(id) ==
  /\ timer[id]
  /\ timer' = [timer EXCEPT ![id] = FALSE]
  /\ outcome' = Settle(outcome, id, "timeout")
  /\ UNCHANGED <<requests, nextRequestId, resolvedWith, written, responded,
                 notConnectedCalls>>
  /\ UNCHANGED <<connectionState, channel, sock, sockGen, connectQueued>>
  /\ UNCHANGED <<connVars, reconnVars, discVars, deviceVars>>

\* matching by arrival order: the oldest pending entry takes the response
LookupOldest(m) ==
  IF requests = {} THEN 0 ELSE CHOOSE k \in requests : \A j \in requests : k <= j

\* handleMessage: the pending entry a response with requestId m is matched to (0 = none)
Lookup(m) == IF m \in requests THEN m ELSE 0

\* Connection.onData + handleMessage for a response {requestId: m, status, result}
\* the device sends on the live channel, in any order
handleMessage(m) ==
  /\ ChannelLive
  /\ m \in written \ responded
  /\ responded' = responded \cup {m}
  /\ LET k == Lookup(m) IN
     IF k # 0
     THEN /\ requests' = requests \ {k}
          /\ outcome' = Settle(outcome, k, "resolved")
          /\ resolvedWith' = IF outcome[k] = "pending"
                             THEN [resolvedWith EXCEPT ![k] = m]
                             ELSE resolvedWith
     ELSE UNCHANGED <<requests, outcome, resolvedWith>>
  /\ UNCHANGED <<nextRequestId, timer, written, notConnectedCalls>>
  /\ UNCHANGED <<connectionState, channel, sock, sockGen, connectQueued>>
  /\ UNCHANGED <<connVars, reconnVars, discVars, deviceVars>>

\* ------------------------------------------------- the ssh2 client's socket

Writable(s) == s \in {"connecting", "handshake", "ready"}

\* client.connect(): opens a socket at once when the client has none, else
\* ends the old socket and connects when it has closed
clientConnectSock == IF sock = "none" THEN "connecting" ELSE "closing"
clientConnectGen == IF sock = "none" THEN sockGen + 1 ELSE sockGen
clientConnectQueued == sock # "none"

\* client.end(): ends a socket that is up; the socket closes when the peer
\* has ended its side too
clientEnd(s) == IF Writable(s) THEN "ending" ELSE s

\* a destroy that leaves the socket as it is
clientDestroyNoop(s) == s

\* client.destroy(): destroys the socket; its close event is due at once
clientDestroy(s) == IF s = "none" THEN "none" ELSE "closing"

\* a reconnect() that schedules a retry at every call
reconnectSchedulesAlways == TRUE

\* Connection.reconnect(): schedules a retry once the attempts have reached the maximum
reconnectSchedules == reconnectAttempts >= ReconnectMaxAttempts

\* ------------------------------------------------------------- connect()

\* Connection.connect(): returns at once when open, else clientConnect()
connect ==
  /\ connectCalls < MaxConnectCalls
  /\ connectPc \in {"idle", "done"}
  /\ connectCalls' = connectCalls + 1
  /\ firstFailure' = "none"
  /\ installExit' = NoExit
  /\ installCount' = 0
  /\ reconnectCount' = 0
  /\ retryCount' = 0
  /\ connectError' = NoError
  /\ IF connectionState = "open"
     THEN /\ connectPc' = "done"
          /\ connectResult' = "resolved"
          /\ UNCHANGED <<sock, sockGen, connectQueued>>
     ELSE /\ connectPc' = "clientConnect1"
          /\ connectResult' = "none"
          /\ sock' = clientConnectSock
          /\ sockGen' = clientConnectGen
          /\ connectQueued' = clientConnectQueued
  /\ UNCHANGED <<connectionState, channel>>
  /\ UNCHANGED <<reqVars, reconnVars, discVars, deviceVars>>

\* client.on("connect")
ClientOnConnect ==
  /\ sock = "connecting"
  /\ sock' = "handshake"
  /\ connectionState' = "connecting"
  /\ UNCHANGED <<channel, sockGen, connectQueued>>
  /\ UNCHANGED <<connVars, reqVars, reconnVars, discVars, deviceVars>>

\* client.on("ready") and the once("ready") of clientConnect(): connect() goes on
\* to createDevServerChannel()
ClientOnReady ==
  /\ sock = "handshake"
  /\ sock' = "ready"
  /\ connectionState' = "open"
  /\ connectPc' = CASE connectPc = "clientConnect1" -> "subsys1"
                    [] connectPc = "clientConnect2" -> "subsys2"
                    [] OTHER -> connectPc
  /\ reconnectOnClose' = IF connectPc = "clientConnect1" THEN TRUE ELSE reconnectOnClose
  /\ retryCount' = IF connectPc = "clientConnect2" THEN retryCount + 1 ELSE retryCount
  /\ UNCHANGED <<channel, sockGen, connectQueued>>
  /\ UNCHANGED <<connectResult, connectError, connectCalls, firstFailure,
                 installExit, installCount, reconnectCount>>
  /\ UNCHANGED <<reconnectAttempts, reconnectTimer>>
  /\ UNCHANGED <<reqVars, discVars, deviceVars>>

\* client.on("error") and the once("error") of clientConnect()
ClientOnError ==
  /\ Writable(sock) \/ sock = "ending"
  /\ sock' = "closing"
  /\ connectionState' = "error"
  /\ IF connectPc \in {"clientConnect1", "clientConnect2"}
     THEN /\ connectPc' = "done"
          /\ connectResult' = "rejected"
          /\ connectError' = <<"TransportError", NoExit>>
     ELSE UNCHANGED <<connectPc, connectResult, connectError>>
  /\ UNCHANGED <<channel, sockGen, connectQueued>>
  /\ UNCHANGED <<connectCalls, firstFailure, installExit, installCount,
                 reconnectCount, retryCount>>
  /\ UNCHANGED <<reqVars, reconnVars, discVars, deviceVars>>

\* the once("timeout") of clientConnect(): rejects with "Connection timeout"
ClientOnTimeout ==
  /\ sock \in {"connecting", "handshake"}
  /\ connectPc \in {"clientConnect1", "clientConnect2"}
  /\ connectPc' = "done"
  /\ connectResult' = "rejected"
  /\ connectError' = <<"ConnectionTimeout", NoExit>>
  /\ UNCHANGED <<connectionState, channel, sock, sockGen, connectQueued>>
  /\ UNCHANGED <<connectCalls, firstFailure, installExit, installCount,
                 reconnectCount, retryCount>>
  /\ UNCHANGED <<reqVars, reconnVars, discVars, deviceVars>>

\* client.on("end"): the peer ended the connection
ClientOnEnd ==
  /\ sock \in {"ready", "ending"}
  /\ sock' = "closing"
  /\ connectionState' = "closed"
  /\ UNCHANGED <<channel, sockGen, connectQueued>>
  /\ UNCHANGED <<connVars, reqVars, reconnVars, discVars, deviceVars>>

\* client.on("close"): reconnect() when the flag is set, then closed; a queued
\* client.connect() opens its socket now
ClientOnClose ==
  /\ sock \in {"ending", "closing"}
  /\ sock' = IF connectQueued THEN "connecting" ELSE "none"
  /\ sockGen' = IF connectQueued THEN sockGen + 1 ELSE sockGen
  /\ connectQueued' = FALSE
  /\ reconnectAttempts' = IF reconnectOnClose /\ reconnectSchedules
                          THEN reconnectAttempts + 1 ELSE reconnectAttempts
  /\ reconnectTimer' = IF reconnectOnClose /\ reconnectSchedules
                       THEN TRUE ELSE reconnectTimer
  /\ connectionState' = "closed"
  /\ UNCHANGED <<channel, reconnectOnClose>>
  /\ UNCHANGED <<connVars, reqVars, discVars, deviceVars>>

\* a catch block that installs again when the retry fails the same way
AfterSubsysFailureLoop(pc, err) ==
  CASE err = "UnableToStartSubsystem" -> "install"
    [] pc = "subsys1" /\ err # "UnableToStartSubsystem" -> "resolved"
    [] OTHER -> "rejected"

\* connect(), catch block: what follows a failed createDevServerChannel()
AfterSubsysFailure(pc, err) ==
  CASE pc = "subsys1" /\ err = "UnableToStartSubsystem" -> "install"
    [] pc = "subsys1" /\ err # "UnableToStartSubsystem" -> "resolved"
    [] OTHER -> "rejected"

\* an exit handler that ignores the exit code
AfterInstallExitAny(code) == "reconnect"

\* install(), ch.on("exit"): what follows the exit of the install script
AfterInstallExit(code) == IF code = 0 THEN "reconnect" ELSE "rejected"

\* createDevServerChannel(): client.subsys() calls back with the channel
SubsysOpened ==
  /\ connectPc \in {"subsys1", "subsys2"}
  /\ sock = "ready"
  /\ channel' = sockGen
  /\ connectPc' = "done"
  /\ connectResult' = "resolved"
  /\ UNCHANGED <<connectionState, sock, sockGen, connectQueued>>
  /\ UNCHANGED <<connectError, connectCalls, firstFailure, installExit,
                 installCount, reconnectCount, retryCount>>
  /\ UNCHANGED <<reqVars, reconnVars, discVars, deviceVars>>

\* createDevServerChannel(): client.subsys() calls back with an error; the catch
\* block of connect() installs, swallows the error, or (in the retry) lets it out
SubsysFailed(err) ==
  /\ connectPc \in {"subsys1", "subsys2"}
  /\ sock = "ready" \/ err = "ChannelOpenFailure"
  /\ firstFailure' = IF connectPc = "subsys1" THEN err ELSE firstFailure
  /\ LET after == AfterSubsysFailure(connectPc, err) IN
     CASE after = "install" ->
            /\ connectPc' = "install"
            /\ installCount' = installCount + 1
            /\ UNCHANGED <<connectResult, connectError>>
       [] after = "resolved" ->
            /\ connectPc' = "done"
            /\ connectResult' = "resolved"
            /\ UNCHANGED <<installCount, connectError>>
       [] OTHER ->
            /\ connectPc' = "done"
            /\ connectResult' = "rejected"
            /\ connectError' = <<err, NoExit>>
            /\ UNCHANGED installCount
  /\ UNCHANGED <<connectionState, channel, sock, sockGen, connectQueued>>
  /\ UNCHANGED <<connectCalls, installExit, reconnectCount, retryCount>>
  /\ UNCHANGED <<reqVars, reconnVars, discVars, deviceVars>>

\* install(): the script exits; on code 0 connect() ends the client and calls
\* clientConnect() again, otherwise it rejects with "Installation failed with code"
InstallExit(code) ==
  /\ connectPc = "install"
  /\ sock = "ready"
  /\ installExit' = code
  /\ IF AfterInstallExit(code) = "reconnect"
     THEN /\ connectPc' = "clientConnect2"
          /\ reconnectCount' = reconnectCount + 1
          /\ sock' = clientEnd(sock)
          /\ connectQueued' = TRUE
          /\ UNCHANGED <<connectResult, connectError>>
     ELSE /\ connectPc' = "done"
          /\ connectResult' = "rejected"
          /\ connectError' = <<"InstallationFailed", code>>
          /\ UNCHANGED <<reconnectCount, sock, connectQueued>>
  /\ UNCHANGED <<connectionState, channel, sockGen>>
  /\ UNCHANGED <<connectCalls, firstFailure, installCount, retryCount>>
  /\ UNCHANGED <<reqVars, reconnVars, discVars, deviceVars>>

\* install(): client.exec() calls back with an error
InstallExecFailed ==
  /\ connectPc = "install"
  /\ connectPc' = "done"
  /\ connectResult' = "rejected"
  /\ connectError' = <<"ExecFailed", NoExit>>
  /\ UNCHANGED <<connectionState, channel, sock, sockGen, connectQueued>>
  /\ UNCHANGED <<connectCalls, firstFailure, installExit, installCount,
                 reconnectCount, retryCount>>
  /\ UNCHANGED <<reqVars, reconnVars, discVars, deviceVars>>

\* ---------------------------------------------------------- disconnect()

\* a disconnect() that leaves the reconnect flag and timer as they are
disconnectKeepsReconnect ==
  /\ disconnectCalls < MaxDisconnects
  /\ disconnectCalls' = disconnectCalls + 1
  /\ sock' = clientEnd(sock)
  /\ destroyTimers' = destroyTimers + 1
  /\ UNCHANGED <<connectionState, channel, sockGen, connectQueued, reconnVars>>
  /\ UNCHANGED <<connVars, reqVars, deviceVars>>

\* Connection.disconnect(): clears the reconnect flag and timer, ends the client
\* and arms the forced destroy
disconnect ==
  /\ disconnectCalls < MaxDisconnects
  /\ disconnectCalls' = disconnectCalls + 1
  /\ reconnectOnClose' = FALSE
  /\ reconnectTimer' = FALSE
  /\ sock' = clientEnd(sock)
  /\ destroyTimers' = destroyTimers + 1
  /\ UNCHANGED <<connectionState, channel, sockGen, connectQueued, reconnectAttempts>>
  /\ UNCHANGED <<connVars, reqVars, deviceVars>>

\* the setTimeoutAsync(10000) of disconnect() fires: client.destroy()
DestroyTimerFires ==
  /\ destroyTimers > 0
  /\ destroyTimers' = destroyTimers - 1
  /\ sock' = clientDestroy(sock)
  /\ UNCHANGED <<connectionState, channel, sockGen, connectQueued, disconnectCalls>>
  /\ UNCHANGED <<connVars, reqVars, reconnVars, deviceVars>>

\* ------------------------------------------------------------ behaviours

Next ==
  \/ Request
  \/ \E id \in RequestIds : RequestTimeout(id)
  \/ \E m \in RequestIds : handleMessage(m)
  \/ connect
  \/ ClientOnConnect
  \/ ClientOnReady
  \/ ClientOnError
  \/ ClientOnTimeout
  \/ ClientOnEnd
  \/ ClientOnClose
  \/ SubsysOpened
  \/ \E err \in SubsysErrors : SubsysFailed(err)
  \/ \E code \in ExitCodes : InstallExit(code)
  \/ InstallExecFailed
  \/ disconnect
  \/ DestroyTimerFires

Spec == Init /\ [][Next]_vars

\* One session, from the moment connect() has resolved: the sub-channel is open,
\* or its first open failed with an error the catch block swallowed (channel null)
SessionInit ==
  /\ DeviceInit
  /\ CompileIdle
  /\ connectionState = "open"
  /\ \/ channel = 1 /\ firstFailure = "none"
     \/ channel = 0 /\ firstFailure = "ChannelOpenFailure"
  /\ requests = {}
  /\ nextRequestId = FirstRequestId
  /\ reconnectOnClose = TRUE
  /\ reconnectAttempts = 0
  /\ reconnectTimer = FALSE
  /\ sock = "ready"
  /\ sockGen = 1
  /\ connectQueued = FALSE
  /\ connectPc = "done"
  /\ connectResult = "resolved"
  /\ connectError = NoError
  /\ connectCalls = 1
  /\ installExit = NoExit
  /\ installCount = 0
  /\ reconnectCount = 0
  /\ retryCount = 0
  /\ outcome = [i \in RequestIds |-> "none"]
  /\ resolvedWith = [i \in RequestIds |-> 0]
  /\ timer = [i \in RequestIds |-> FALSE]
  /\ written = {}
  /\ responded = {}
  /\ notConnectedCalls = 0
  /\ destroyTimers = 0
  /\ disconnectCalls = 0

\* the events of a session: requests, responses, timers, transport error, end
\* and close, disconnect() and its forced destroy
SessionNext ==
  \/ Request
  \/ \E id \in RequestIds : RequestTimeout(id)
  \/ \E m \in RequestIds : handleMessage(m)
  \/ ClientOnError
  \/ ClientOnEnd
  \/ ClientOnClose
  \/ disconnect
  \/ DestroyTimerFires

\* the timers of Node fire: every armed request timer eventually runs
FairSessionSpec ==
  /\ SessionInit
  /\ [][SessionNext]_vars
  /\ \A id \in RequestIds : WF_vars(RequestTimeout(id))

\* ------------------------------------- the Device over a Connection: events

EventNames == {"metadata", "device_metadata", "telemetry", "alarms"}
Payloads == 1..MaxPayload

\* Device.handleMessage, switch (event.event): the cache field an event name
\* selects, "none" when no case matches
CacheField(name) ==
  CASE name = "metadata" -> "metadata"
    [] name = "telemetry" -> "telemetry"
    [] OTHER -> "none"

\* an assignment that keeps a value already cached
AssignKeepFirst(old, new) == IF old = 0 THEN new ELSE old

\* this._telemetry = event.data: the field takes the payload, whatever it held
Assign(old, new) == new

\* a listener chain that notifies twice
NotifyTwice(kind, v) ==
  << <<"Device", kind, v>>, <<"DeviceManager", "change", 0>>,
     <<"Device", kind, v>>, <<"DeviceManager", "change", 0>> >>

\* this.emit(kind, data) of the Device, and the listener DeviceManager.importDevice
\* put on that event, which emits "change"
Notify(kind, v) == << <<"Device", kind, v>>, <<"DeviceManager", "change", 0>> >>

\* an event envelope {event: name, data: p} arrives on the live channel:
\* Connection.handleMessage takes its last branch and emits "message", and
\* Device.handleMessage caches and announces the payload when a case matches
handleServerEvent(name, p) ==
  /\ ChannelLive
  /\ Len(delivered) < MaxEvents
  /\ delivered' = Append(delivered, <<name, p>>)
  /\ LET field == CacheField(name) IN
     /\ metadata' = IF field = "metadata" THEN Assign(metadata, p) ELSE metadata
     /\ telemetry' = IF field = "telemetry" THEN Assign(telemetry, p) ELSE telemetry
     /\ emitted' = IF field = "none" THEN <<>> ELSE Notify(field, p)
  /\ UNCHANGED <<alarms, phxVars, appVars>>
  /\ UNCHANGED <<sessionVars, connVars, reqVars, reconnVars, discVars>>

NoiseKinds == {"invalid_json", "unknown_response"}

\* a handleMessage without the branch for responses nobody waits for
BranchNoOrphanCase(isResp, id) ==
  IF isResp /\ id \in requests THEN "resolve" ELSE "emit"

\* Connection.handleMessage: the branch a parsed message takes
Branch(isResp, id) ==
  IF isResp /\ id \in requests THEN "resolve"
  ELSE IF isResp THEN "discard" ELSE "emit"

\* Connection.onData for data that is no JSON (JSON.parse throws, the catch
\* logs) or is a response {requestId: u, ...} with no entry under u
onDataNoise(kind, u) ==
  /\ ChannelLive
  /\ Len(delivered) < MaxEvents
  /\ u \notin requests
  /\ delivered' = Append(delivered, <<kind, 0>>)
  /\ LET b == IF kind = "invalid_json" THEN "caught" ELSE Branch(TRUE, u) IN
     emitted' = IF b = "emit" THEN << <<"Connection", "message", u>> >> ELSE <<>>
  /\ UNCHANGED <<metadata, telemetry, alarms, phxVars, appVars>>
  /\ UNCHANGED <<sessionVars, connVars, reqVars, reconnVars, discVars>>

\* the requests and the pushed events of an open session
DeviceNext ==
  \/ Request
  \/ \E id \in RequestIds : RequestTimeout(id)
  \/ \E m \in RequestIds : handleMessage(m)
  \/ \E name \in EventNames, p \in Payloads : handleServerEvent(name, p)
  \/ \E kind \in NoiseKinds, u \in RequestIds \cup {0} : onDataNoise(kind, u)

DeviceSpec == SessionInit /\ [][DeviceNext]_vars

\* the pushed events of an open session and its end: Device.disconnect() hands
\* over to Connection.disconnect(), the peer may end it, the socket closes
DeviceTeardownNext ==
  \/ \E name \in EventNames, p \in Payloads : handleServerEvent(name, p)
  \/ disconnect
  \/ DestroyTimerFires
  \/ ClientOnEnd
  \/ ClientOnClose

DeviceTeardownSpec == SessionInit /\ [][DeviceTeardownNext]_vars

\* ------------------------------------------- the Device over a phoenix Socket

connectionVars == <<sessionVars, connVars, reqVars, reconnVars, discVars>>

\* get connectionState(): the Socket's state, a closed one read as error when
\* the error flag is set
DeviceConnectionState ==
  LET cs == IF ws = "none" THEN "closed" ELSE ws IN
  IF cs = "closed" THEN (IF connectErrorFlag THEN "error" ELSE "closed") ELSE cs

appRest == <<dirtyModules, descriptor, compile, registry, applied>>

\* the listeners connect() inside update() put on the new socket: the first
\* that runs settles update()
UpdateSettles(v) ==
  deviceCall' = IF deviceCall.update = "connecting"
                THEN [deviceCall EXCEPT !.update = v]
                ELSE deviceCall

\* the listeners connect() put on the socket: the first that runs settles the
\* promise with v and disposes all three
AttemptSettles(v) ==
  IF attemptListeners /\ ~attemptDone
  THEN /\ deviceConnectResult' =
            IF deviceConnectResult = "pending" THEN v ELSE deviceConnectResult
       /\ attemptDone' = TRUE
       /\ attemptListeners' = FALSE
  ELSE UNCHANGED <<deviceConnectResult, attemptDone, attemptListeners>>

\* Device.connect(timeout): registers onOpen, onClose and onError, connects the
\* socket and races the promise against setTimeoutAsync(timeout, "reject")
DeviceConnect ==
  /\ deviceConnectResult = "none"
  /\ attemptListeners' = TRUE
  /\ attemptDone' = FALSE
  /\ ws' = IF ws = "none" THEN "connecting" ELSE ws
  /\ deviceConnectResult' = "pending"
  /\ deviceConnectTimer' = TRUE
  /\ deviceCall' = IF ws = "none" /\ deviceCall.disconnect = "done"
                   THEN [deviceCall EXCEPT !.disconnect = "idle"]
                   ELSE deviceCall
  /\ emitted' = <<>>
  /\ UNCHANGED <<connectErrorFlag, socketReconnectDue, delivered, metadata,
                 telemetry, alarms, appRest, connectionVars>>

\* the timer of connect() fires: the race rejects with TimeoutError
DeviceConnectTimeout ==
  /\ deviceConnectTimer
  /\ deviceConnectTimer' = FALSE
  /\ deviceConnectResult' =
       IF deviceConnectResult = "pending" THEN "timeout" ELSE deviceConnectResult
  /\ emitted' = <<>>
  /\ UNCHANGED <<ws, connectErrorFlag, attemptDone, attemptListeners,
                 socketReconnectDue, delivered, metadata, telemetry, alarms,
                 appVars, connectionVars>>

\* the WebSocket opens: the onOpen of configureSocket, then that of connect()
SocketOnOpen ==
  /\ ws = "connecting"
  /\ ws' = "open"
  /\ emitted' = Notify("connectionState", "open")
                 \o (IF deviceCall.update = "connecting"
                     THEN Notify("connectionState", "open") ELSE <<>>)
  /\ connectErrorFlag' = FALSE
  /\ AttemptSettles("resolved")
  /\ UpdateSettles("done")
  /\ UNCHANGED <<deviceConnectTimer, socketReconnectDue, delivered, metadata,
                 telemetry, alarms, appRest, connectionVars>>

\* the WebSocket fails: the onError of configureSocket, then that of connect()
SocketOnError ==
  /\ ws \in {"connecting", "open"}
  /\ ws' = "closing"
  /\ emitted' = Notify("connectionState", "closing")
  /\ connectErrorFlag' = TRUE
  /\ AttemptSettles("rejectedError")
  /\ UpdateSettles("failed")
  /\ UNCHANGED <<deviceConnectTimer, socketReconnectDue, delivered, metadata,
                 telemetry, alarms, appRest, connectionVars>>

\* the WebSocket closes: the onClose of configureSocket, then that of connect();
\* unless disconnect() made the close a clean one, the Socket will connect again
SocketOnClose ==
  /\ ws \in {"open", "closing"}
  /\ ws' = "closed"
  /\ emitted' = Notify("connectionState", IF connectErrorFlag THEN "error" ELSE "closed")
  /\ socketReconnectDue' = (deviceCall.disconnect = "idle")
  /\ AttemptSettles("rejectedClosed")
  /\ UpdateSettles("failed")
  /\ UNCHANGED <<connectErrorFlag, deviceConnectTimer, delivered, metadata,
                 telemetry, alarms, appRest, connectionVars>>

\* Socket.transportConnect, run again by the Socket after an unclean close
transportConnect ==
  /\ socketReconnectDue
  /\ ws = "closed"
  /\ ws' = "connecting"
  /\ socketReconnectDue' = FALSE
  /\ emitted' = <<>>
  /\ UNCHANGED <<connectErrorFlag, attemptDone, attemptListeners,
                 deviceConnectResult, deviceConnectTimer, delivered, metadata,
                 telemetry, alarms, appVars, connectionVars>>

\* Device.handleTelemetry: a telemetry push on the telemetry channel
handleTelemetry(p) ==
  /\ ws = "open"
  /\ Len(delivered) < MaxEvents
  /\ delivered' = Append(delivered, <<"telemetry", p>>)
  /\ telemetry' = Assign(telemetry, p)
  /\ emitted' = Notify("telemetry", p)
  /\ UNCHANGED <<metadata, alarms, phxVars, appVars, connectionVars>>

\* Device.handleAlarms: an alarms push on the telemetry channel
handleAlarms(p) ==
  /\ ws = "open"
  /\ Len(delivered) < MaxEvents
  /\ delivered' = Append(delivered, <<"alarms", p>>)
  /\ alarms' = Assign(alarms, p)
  /\ emitted' = Notify("alarms", p)
  /\ UNCHANGED <<metadata, telemetry, phxVars, appVars, connectionVars>>

\* Device.handleDirtyModules: a dirty_modules push on the code channel
handleDirtyModules(p) ==
  /\ ws = "open"
  /\ Len(delivered) < MaxEvents
  /\ delivered' = Append(delivered, <<"dirty_modules", p>>)
  /\ dirtyModules' = Assign(dirtyModules, p)
  /\ emitted' = Notify("dirtyModules", p)
  /\ UNCHANGED <<metadata, telemetry, alarms, phxVars, deviceCall, descriptor,
                 compile, registry, applied, connectionVars>>

\* Device.afterJoin("telemetry", message): the reply to the join of the
\* telemetry channel is the device's metadata
afterJoin(p) ==
  /\ ws = "open"
  /\ Len(delivered) < MaxEvents
  /\ delivered' = Append(delivered, <<"device_metadata", p>>)
  /\ metadata' = Assign(metadata, p)
  /\ emitted' = Notify("metadata", p)
  /\ UNCHANGED <<telemetry, alarms, phxVars, appVars, connectionVars>>

\* Device.resetState
resetState ==
  /\ alarms' = 0
  /\ metadata' = 0
  /\ telemetry' = 0
  /\ dirtyModules' = 0
  /\ connectErrorFlag' = FALSE

\* the callback Device.disconnect() gave to Socket.disconnect, in the call
\* `call`: the state is reset and disconnect() resolves; an update() waiting
\* for it goes on with a socket from configureSocket() and, when its reconnect
\* is set, with connect()
DisconnectCallback(call) ==
  /\ resetState
  /\ IF call.update = "disconnecting"
     THEN /\ attemptListeners' = FALSE
          /\ IF call.reconnect
             THEN /\ ws' = "connecting"
                  /\ deviceCall' = [call EXCEPT !.disconnect = "idle",
                                                !.update = "connecting",
                                                !.timer = TRUE]
                  /\ emitted' = <<>>
             ELSE /\ ws' = "none"
                  /\ deviceCall' = [call EXCEPT !.disconnect = "idle",
                                                !.update = "done"]
                  /\ emitted' = Notify("connectionState", "closed")
     ELSE /\ ws' = "none"
          /\ deviceCall' = [call EXCEPT !.disconnect = "done"]
          /\ emitted' = <<>>
          /\ UNCHANGED attemptListeners

\* Socket.disconnect(callback): the close is a clean one and no reconnect is
\* due; without a transport, or with a closed one, the callback runs at once,
\* else the transport is closed and the callback waits
SocketDisconnect(call) ==
  /\ socketReconnectDue' = FALSE
  /\ IF ws \in {"none", "closed"}
     THEN DisconnectCallback(call)
     ELSE /\ ws' = "closing"
          /\ deviceCall' = [call EXCEPT !.disconnect = "closing"]
          /\ emitted' = <<>>
          /\ UNCHANGED <<metadata, telemetry, alarms, dirtyModules,
                         connectErrorFlag, attemptListeners>>

\* Device.disconnect()
DeviceDisconnect ==
  /\ deviceCall.disconnect = "idle"
  /\ deviceCall.update = "idle"
  /\ SocketDisconnect(deviceCall)
  /\ UNCHANGED <<attemptDone, deviceConnectResult, deviceConnectTimer,
                 delivered, descriptor, compile, registry, applied, connectionVars>>

\* the Socket is done waiting for its transport (closed, or given up on after
\* five looks): it drops the transport and runs the callback
DeviceDisconnectDone ==
  /\ deviceCall.disconnect = "closing"
  /\ DisconnectCallback(deviceCall)
  /\ UNCHANGED <<socketReconnectDue, attemptDone, deviceConnectResult,
                 deviceConnectTimer, delivered, descriptor, compile, registry, applied,
                 connectionVars>>

\* what update() may be given for a string field: nothing, the empty string,
\* a new value
HostArgs == {"undefined", "", "h2"}
LabelArgs == {"undefined", "", "l2"}
\* and for the token secret: nothing, null, a new secret
TokenArgs == {"undefined", "null", "s2"}

\* if (v) field = v
IfGiven(v, cur) == IF v # "undefined" THEN v ELSE cur
IfTruthy(v, cur) == IF v \notin {"undefined", ""} THEN v ELSE cur

\* Device.update({host, label, tokenSecret})
DeviceUpdate(h, l, t) ==
  /\ deviceCall.disconnect = "idle"
  /\ deviceCall.update = "idle"
  /\ descriptor' = [descriptor EXCEPT !.host = IfTruthy(h, @),
                                      !.label = IfTruthy(l, @),
                                      !.tokenSecret = IfGiven(t, @)]
  /\ SocketDisconnect([deviceCall EXCEPT
                         !.update = "disconnecting",
                         !.reconnect = (DeviceConnectionState # "closed"),
                         !.before = DeviceConnectionState,
                         !.args = <<h, l, t>>,
                         !.old = descriptor])
  /\ UNCHANGED <<attemptDone, deviceConnectResult, deviceConnectTimer,
                 delivered, compile, registry, applied, connectionVars>>

\* the timer of the connect() inside update() fires
DeviceUpdateTimeout ==
  /\ deviceCall.timer
  /\ deviceCall' = [deviceCall EXCEPT
                      !.timer = FALSE,
                      !.update = IF @ = "connecting" THEN "failed" ELSE @]
  /\ emitted' = <<>>
  /\ UNCHANGED <<delivered, metadata, telemetry, alarms, phxVars, appRest,
                 connectionVars>>

SocketNext ==
  \/ DeviceConnect
  \/ DeviceConnectTimeout
  \/ SocketOnOpen
  \/ SocketOnError
  \/ SocketOnClose
  \/ transportConnect
  \/ \E p \in Payloads : handleTelemetry(p)
  \/ \E p \in Payloads : handleAlarms(p)
  \/ \E p \in Payloads : handleDirtyModules(p)
  \/ \E p \in Payloads : afterJoin(p)
  \/ DeviceDisconnect
  \/ DeviceDisconnectDone
  \/ DeviceUpdate("h2", "l2", "undefined")
  \/ DeviceUpdateTimeout

\* a Device over a phoenix Socket, from its construction
SocketSpec == Init /\ [][SocketNext]_vars

\* -------------------------------------------------------------- compileCode

CompileStatuses == {"ok", "error"}

\* the dirtyModules of a compile reply: not there, the empty list, a list
DirtyPayloads == {Undefined, 0} \cup Payloads

\* a compileCode that throws when the device reports an error
compileResultThrowsOnError(status, result) ==
  [status |-> IF status = "ok" THEN "ok" ELSE "error",
   diagnostics |-> IF status = "ok" THEN result ELSE 0,
   thrown |-> status # "ok"]

\* what compileCode returns for a response: { status, diagnostics }
compileResult(status, result) ==
  [status |-> IF status = "ok" THEN "ok" ELSE "error",
   diagnostics |-> result,
   thrown |-> FALSE]

\* Device.compileCode over a Connection, once its request has resolved with a
\* response of the given status and result; this Device keeps no dirtyModules
compileCodeReturn(id, status, result) ==
  /\ compile.variant = "none"
  /\ outcome[id] = "resolved"
  /\ compile' = [variant |-> "connection", status |-> status, result |-> result,
                 dirty |-> Undefined, returned |-> compileResult(status, result)]
  /\ UNCHANGED <<devVars, phxVars, dirtyModules, deviceCall, descriptor, registry, applied,
                 connectionVars>>

\* Device.compileCode over the code channel: the receive("ok") or
\* receive("error") callback run with the reply { diagnostics, dirtyModules }
compileCodeReceive(status, diagnostics, dirty) ==
  /\ compile.variant = "none"
  /\ ws = "open"
  /\ dirtyModules' = dirty
  /\ emitted' = Notify("dirtyModules", dirty)
  /\ compile' = [variant |-> "socket", status |-> status, result |-> diagnostics,
                 dirty |-> dirty, returned |-> compileResult(status, diagnostics)]
  /\ UNCHANGED <<delivered, metadata, telemetry, alarms, phxVars, deviceCall,
                 descriptor, registry, applied, connectionVars>>

\* compile requests and their replies, over an open Connection and over a
\* Socket that is being connected
CompileNext ==
  \/ Request
  \/ \E m \in RequestIds : handleMessage(m)
  \/ \E id \in RequestIds, st \in CompileStatuses, r \in Payloads :
       compileCodeReturn(id, st, r)
  \/ DeviceConnect
  \/ SocketOnOpen
  \/ \E p \in Payloads : handleDirtyModules(p)
  \/ \E st \in CompileStatuses, r \in Payloads, d \in DirtyPayloads :
       compileCodeReceive(st, r, d)

CompileSpec == SessionInit /\ [][CompileNext]_vars

\* ----------------------------------------------------------- DeviceManager

DeviceIds == 1..MaxDevices

Change == <<"DeviceManager", "change", 0>>

\* getDevice(id): this.devices[id] || null, a Device being known by its id
getDevice(devices, id) == IF id \in devices THEN id ELSE 0

\* randomUUID(): an id no Device has
randomUUID(devices) == DeviceIds \ devices

\* what importDevice hands back to addDevice: it has no return statement
importDevice == Undefined

\* a removal that does not disconnect
deviceDisconnectSkipped(disconnected, id) == disconnected

\* await this.devices[id].disconnect()
deviceDisconnect(disconnected, id) == disconnected \cup {id}

registryRest == <<delivered, metadata, telemetry, alarms, phxVars, dirtyModules,
                  deviceCall, descriptor, compile, applied, connectionVars>>

\* addDevice(descriptor), d the id of the descriptor or 0 when it has none:
\* importDevice({ id: randomUUID(), ...descriptor }) builds the Device, puts it
\* under its id, subscribes to it and emits change
addDevice(d) ==
  /\ \E id \in (IF d = 0 THEN randomUUID(registry.devices) ELSE {d}) :
       /\ id \notin registry.devices
       /\ registry' = [registry EXCEPT !.devices = @ \cup {id},
                                       !.disconnected = @ \ {id},
                                       !.returned = importDevice,
                                       !.last = [op |-> "add", id |-> id]]
  /\ emitted' = <<Change>>
  /\ UNCHANGED registryRest

\* removeDevice(id) on an id the registry does not have: returns at once
removeDeviceUnknown(id) ==
  /\ id \notin registry.devices
  /\ registry' = [registry EXCEPT !.last = [op |-> "removeUnknown", id |-> id]]
  /\ emitted' = <<>>
  /\ UNCHANGED registryRest

\* removeDevice(id) up to its await: the Device's disconnect() is called
removeDevice(id) ==
  /\ id \in registry.devices
  /\ id \notin registry.removing
  /\ registry' = [registry EXCEPT
                    !.disconnected = deviceDisconnect(@, id),
                    !.removing = @ \cup {id},
                    !.last = [op |-> "remove", id |-> id]]
  /\ emitted' = <<>>
  /\ UNCHANGED registryRest

\* removeDevice(id) after its await: the Device is deleted and change emitted
removeDeviceDone(id) ==
  /\ id \in registry.removing
  /\ registry' = [registry EXCEPT !.devices = @ \ {id},
                                  !.removing = @ \ {id},
                                  !.last = [op |-> "removed", id |-> id]]
  /\ emitted' = <<Change>>
  /\ UNCHANGED registryRest

RegistryNext ==
  \/ \E d \in DeviceIds \cup {0} : addDevice(d)
  \/ \E id \in DeviceIds : removeDeviceUnknown(id)
  \/ \E id \in DeviceIds : removeDevice(id)
  \/ \E id \in DeviceIds : removeDeviceDone(id)

RegistrySpec == Init /\ [][RegistryNext]_vars

\* --------------------------------------------------------- export / import

\* what a Device can be constructed from
DescriptorIds == {"id1", "id2", "id3"}
DescriptorHosts == {"h1", "h2", "h3"}
DescriptorLabels == {"null", "", "l1"}
DescriptorSecrets == {"null", "", "s1"}

\* a || b for strings, "null" standing for null and undefined
OrElse(a, b) == IF a \in {"null", ""} THEN b ELSE a

\* new Device(id, host, label, tokenSecret): label || host, tokenSecret || null
NewDevice(id, host, label, tokenSecret) ==
  [id |-> id, host |-> host, label |-> OrElse(label, host),
   tokenSecret |-> OrElse(tokenSecret, "null")]

\* the Devices a registry can hold
Devices ==
  {NewDevice(id, h, l, t) : id \in DescriptorIds, h \in DescriptorHosts,
                            l \in DescriptorLabels, t \in DescriptorSecrets}

\* the registries: the one of Devices over a Connection, the one of Devices
\* over a Socket, the one next to the tree provider
Registries == {"connection", "socket", "tree"}

\* Device.export(): the Device over a Connection has and exports no secret
export(d, reg) ==
  IF reg = "connection"
  THEN [id |-> d.id, host |-> d.host, label |-> d.label, tokenSecret |-> "null"]
  ELSE [id |-> d.id, host |-> d.host, label |-> d.label,
        tokenSecret |-> d.tokenSecret]

\* the constructor of the registry, for one exported descriptor e: addDevice(e)
\* keeps the id through { id: randomUUID(), ...e }; the registry next to the
\* tree provider calls addDevice(e.host, e.label), which takes a new id and
\* builds the Device without a secret
import(e, reg, uuid) ==
  CASE reg = "connection" -> NewDevice(e.id, e.host, e.label, "null")
    [] reg = "socket" -> NewDevice(e.id, e.host, e.label, e.tokenSecret)
    [] OTHER -> NewDevice(uuid, e.host, e.label, "null")

\* a registry of kind reg is constructed from the export of the Device
importExported(reg) ==
  /\ registry.imported = <<>>
  /\ registry' = [registry EXCEPT
                    !.imported = <<reg, import(export(descriptor, reg), reg, "uuid")>>]
  /\ emitted' = <<Change>>
  /\ UNCHANGED registryRest

RoundTripInit ==
  /\ ConnectionInit
  /\ DeviceIdle
  /\ CompileIdle
  /\ descriptor \in Devices

RoundTripNext == \E reg \in Registries : importExported(reg)

RoundTripSpec == RoundTripInit /\ [][RoundTripNext]_vars

\* ------------------------------------------- NervesDevtools.Subsystem

notApplied == <<devVars, phxVars, dirtyModules, deviceCall, descriptor, compile,
                registry, connectionVars>>

\* what arrives on the channel: a request with requestId, cmd and payload, a
\* JSON object that lacks one of them (with or without a requestId), or
\* something that is not JSON
EnvelopeKinds == {"request", "partial", "partial_no_id", "invalid_json"}
Commands == {"version", "compile_code", "get_alarms", "reboot"}
\* a payload: a map with "code", a map without it, a list
PayloadShapes == {"code", "empty", "list"}
\* what the compiler makes of the code
Compilations == {"clean", "warnings", "errors"}

Envelopes ==
  [kind : {"request"}, requestId : RequestIds, cmd : Commands,
   payload : PayloadShapes]
  \cup [kind : EnvelopeKinds \ {"request"}, requestId : RequestIds,
        cmd : {"version"}, payload : {"empty"}]

\* decode_command: the request, or an error with the requestId if there is one
\* (0 = nil)
decode_command(e) ==
  CASE e.kind = "request" ->
         [ok |-> TRUE, requestId |-> e.requestId, reason |-> "none"]
    [] e.kind = "partial" ->
         [ok |-> FALSE, requestId |-> e.requestId, reason |-> "invalid_command"]
    [] e.kind = "partial_no_id" ->
         [ok |-> FALSE, requestId |-> 0, reason |-> "invalid_command"]
    [] OTHER ->
         [ok |-> FALSE, requestId |-> 0, reason |-> "invalid_json"]

\* handle_command: the {status, result} it returns; the clause for "version"
\* has an empty body and returns nil
handle_command(cmd, payload, c) ==
  CASE cmd = "version" ->
         [tuple |-> FALSE, status |-> "none", result |-> "nil"]
    [] cmd = "compile_code" /\ payload = "code" ->
         [tuple |-> TRUE,
          status |-> IF c = "errors" THEN "error" ELSE "ok",
          result |-> IF c = "clean" THEN "Compilation successful" ELSE "diagnostics"]
    [] cmd = "get_alarms" /\ payload # "list" ->
         [tuple |-> TRUE, status |-> "ok", result |-> "alarms"]
    [] OTHER ->
         [tuple |-> TRUE, status |-> "error", result |-> "unknown_command"]

\* handle_ssh_msg for data on the channel: the one map it sends back; a failed
\* match {status, result} = nil is rescued with a map that has no requestId
handle_ssh_msg(e, c) ==
  LET d == decode_command(e) IN
  IF d.ok
  THEN LET r == handle_command(e.cmd, e.payload, c) IN
       IF r.tuple
       THEN [requestId |-> d.requestId, status |-> r.status, result |-> r.result]
       ELSE [requestId |-> Undefined, status |-> "error",
             result |-> "Internal error"]
  ELSE [requestId |-> d.requestId, status |-> "error",
        result |-> "Invalid command or JSON"]

\* the subsystem takes the data e off the channel and answers it
SubsystemHandles(e, c) ==
  /\ Len(applied) < MaxApplied
  /\ applied' = Append(applied, <<"handle_ssh_msg", e, handle_ssh_msg(e, c)>>)
  /\ UNCHANGED notApplied

SubsystemNext ==
  \E e \in Envelopes, c \in Compilations :
    /\ (e.cmd # "compile_code" \/ e.payload # "code") => c = "clean"
    /\ SubsystemHandles(e, c)

SubsystemSpec == Init /\ [][SubsystemNext]_vars

\* ------------------------------------------------------------ host[:port]

\* the characters of a host string: a letter, a digit, and the three that
\* the parsers look for
Chars == {"h", "2", ":", "[", "]"}
Digits == {"2"}
DefaultPort == 22
NaN == 0 - 2
invalidPort == 0 - 3

HostStrings == UNION {[1..n -> Chars] : n \in 1..MaxHostLen}

\* s.indexOf(c) and s.lastIndexOf(c), counted from 1; 0 when c is not in s
IndexOf(s, c) ==
  IF \E i \in 1..Len(s) : s[i] = c
  THEN CHOOSE i \in 1..Len(s) : s[i] = c /\ \A j \in 1..(i - 1) : s[j] # c
  ELSE 0
LastIndexOf(s, c) ==
  IF \E i \in 1..Len(s) : s[i] = c
  THEN CHOOSE i \in 1..Len(s) : s[i] = c /\ \A j \in (i + 1)..Len(s) : s[j] # c
  ELSE 0

\* parseInt(s, 10): the number its leading digits spell, NaN without any
RECURSIVE ParseDigits(_, _, _)
ParseDigits(s, i, acc) ==
  IF i <= Len(s) /\ s[i] \in Digits
  THEN ParseDigits(s, i + 1, acc * 10 + 2)
  ELSE acc
parseInt(s) == IF s # <<>> /\ s[1] \in Digits THEN ParseDigits(s, 1, 0) ELSE NaN

\* the first and the second element of s.split(":")
SplitPart0(s) == IF IndexOf(s, ":") = 0 THEN s ELSE SubSeq(s, 1, IndexOf(s, ":") - 1)
SplitPart1(s) ==
  LET rest == SubSeq(s, IndexOf(s, ":") + 1, Len(s)) IN SplitPart0(rest)

\* Connection.splitHostAndPort: parts[0] and parseInt(parts[1]), 22 without a
\* second part
ConnectionSplitHostAndPort(s) ==
  [host |-> SplitPart0(s),
   port |-> IF IndexOf(s, ":") # 0 THEN parseInt(SplitPart1(s)) ELSE DefaultPort]

\* what clientConnect() hands to client.connect(), which takes 22 for a port
\* that is not a number
clientConnectTarget(s) ==
  LET p == ConnectionSplitHostAndPort(s) IN
  [host |-> p.host, port |-> IF p.port = NaN THEN DefaultPort ELSE p.port]

\* splitHostAndPort of the input validator: split at the last colon, the port
\* left undefined when nothing follows the colon, brackets taken off the host
splitHostAndPort(s) ==
  LET splitAt == LastIndexOf(s, ":")
      host == IF splitAt = 0 THEN s ELSE SubSeq(s, 1, splitAt - 1)
      portStr == IF splitAt = 0 THEN <<>> ELSE SubSeq(s, splitAt + 1, Len(s))
      port == IF portStr = <<>> THEN Undefined
              ELSE LET n == parseInt(portStr) IN
                   IF n # NaN /\ n >= 1 /\ n <= 65535 THEN n ELSE invalidPort
  IN [host |-> IF host # <<>> /\ host[1] = "[" /\ host[Len(host)] = "]"
               THEN SubSeq(host, 2, Len(host) - 1) ELSE host,
      port |-> port]

\* validHostnameRegex, on the letters and digits of Chars
isValidHostname(v) == v # <<>> /\ \A i \in 1..Len(v) : v[i] \in {"h", "2"}

\* net.isIP, on the colons and digits of Chars: an IPv6 address short enough
\* to need "::", which it has once, with groups of at most four digits
isIP(v) ==
  /\ v # <<>>
  /\ \A i \in 1..Len(v) : v[i] \in {":", "2"}
  /\ Cardinality({i \in 1..(Len(v) - 1) : v[i] = ":" /\ v[i + 1] = ":"}) = 1
  /\ v[1] = ":" => v[2] = ":"
  /\ v[Len(v)] = ":" => v[Len(v) - 1] = ":"
  /\ \A i \in 1..(Len(v) - 4) : \E j \in i..(i + 4) : v[j] = ":"

isValidHostnameOrIP(v) == isIP(v) \/ isValidHostname(v)

\* validateHostAndPort(value) returns null
validateHostAndPort(s) ==
  LET parts == splitHostAndPort(s) IN
  /\ parts.host # <<>>
  /\ isValidHostnameOrIP(parts.host)
  /\ parts.port # invalidPort

Applied(name) == \E i \in 1..Len(applied) : applied[i][1] = name
Result(name) == applied[CHOOSE i \in 1..Len(applied) : applied[i][1] = name][2]

\* the input box validates the host string the user typed
ValidateHost ==
  /\ ~Applied("validateHostAndPort")
  /\ applied' = Append(applied, <<"validateHostAndPort",
                                  [accepted |-> validateHostAndPort(descriptor.host),
                                   parts |-> splitHostAndPort(descriptor.host)]>>)
  /\ UNCHANGED notApplied

\* clientConnect() resolves the host of the session
ResolveHost ==
  /\ ~Applied("clientConnect")
  /\ applied' = Append(applied, <<"clientConnect",
                                  clientConnectTarget(descriptor.host)>>)
  /\ UNCHANGED notApplied

HostInit ==
  /\ ConnectionInit
  /\ DeviceIdle
  /\ CompileIdle
  /\ descriptor \in [id : {"id1"}, host : HostStrings, label : {"l1"},
                      tokenSecret : {"null"}]

HostNext == ValidateHost \/ ResolveHost

HostSpec == HostInit /\ [][HostNext]_vars

\* ------------------------------------- update() of a Device over a Connection

replaceRest == <<delivered, metadata, telemetry, alarms, phxVars, dirtyModules,
                 compile, registry, applied>>

\* Device.update({host, label}): disconnect() of the session (which returns
\* without waiting for the close), a new Connection in its place with the
\* Device's listeners on it, and connect() when the state was not closed. The
\* listeners on the replaced Connection stay where they are.
DeviceUpdateConnection(h, l) ==
  /\ ~deviceCall.replaced.live
  /\ connectPc \in {"idle", "done"}
  /\ descriptor' = [descriptor EXCEPT !.host = IfTruthy(h, descriptor.host),
                                      !.label = IfTruthy(l, descriptor.label)]
  /\ deviceCall' = [deviceCall EXCEPT
                      !.replaced = [live |-> TRUE, sock |-> clientEnd(sock),
                                    state |-> connectionState,
                                    destroy |-> TRUE]]
  /\ connectionState' = "closed"
  /\ channel' = 0
  /\ reconnectOnClose' = FALSE
  /\ reconnectAttempts' = 0
  /\ reconnectTimer' = FALSE
  /\ connectQueued' = FALSE
  /\ destroyTimers' = 0
  /\ firstFailure' = "none"
  /\ installExit' = NoExit
  /\ installCount' = 0
  /\ reconnectCount' = 0
  /\ retryCount' = 0
  /\ connectError' = NoError
  /\ connectResult' = "none"
  /\ IF connectionState # "closed"
     THEN /\ connectPc' = "clientConnect1"
          /\ connectCalls' = connectCalls + 1
          /\ sock' = "connecting"
          /\ sockGen' = sockGen + 1
     ELSE /\ connectPc' = "idle"
          /\ sock' = "none"
          /\ UNCHANGED <<connectCalls, sockGen>>
  /\ emitted' = <<>>
  /\ UNCHANGED <<reqVars, disconnectCalls, replaceRest>>

\* the listener createConnection() put on a Connection: the Device emits
\* connectionState with the state the Connection reports
ForwardedState(state) == << <<"Device", "connectionState", state>> >>

replacedRest == <<connectionVars, descriptor, replaceRest>>

\* client.on("end") of the replaced Connection
ReplacedOnEnd ==
  /\ deviceCall.replaced.live
  /\ deviceCall.replaced.sock \in {"ready", "ending"}
  /\ deviceCall' = [deviceCall EXCEPT !.replaced.sock = "closing",
                                      !.replaced.state = "closed"]
  /\ emitted' = ForwardedState("closed")
  /\ UNCHANGED replacedRest

\* client.on("close") of the replaced Connection, its reconnect flag cleared
ReplacedOnClose ==
  /\ deviceCall.replaced.live
  /\ deviceCall.replaced.sock \in {"ending", "closing"}
  /\ deviceCall' = [deviceCall EXCEPT !.replaced.sock = "none",
                                      !.replaced.state = "closed"]
  /\ emitted' = ForwardedState("closed")
  /\ UNCHANGED replacedRest

\* the forced-destroy timer of the replaced Connection fires
ReplacedDestroyTimerFires ==
  /\ deviceCall.replaced.live
  /\ deviceCall.replaced.destroy
  /\ deviceCall' = [deviceCall EXCEPT
                      !.replaced.destroy = FALSE,
                      !.replaced.sock = clientDestroy(deviceCall.replaced.sock)]
  /\ emitted' = <<>>
  /\ UNCHANGED replacedRest

\* a session, an update() of its Device, and the events of the replaced and
\* of the new session
ReplaceNext ==
  \/ \E h \in HostArgs, l \in LabelArgs : DeviceUpdateConnection(h, l)
  \/ ReplacedOnEnd
  \/ ReplacedOnClose
  \/ ReplacedDestroyTimerFires
  \/ ClientOnConnect
  \/ ClientOnReady
  \/ ClientOnError
  \/ ClientOnTimeout
  \/ ClientOnEnd
  \/ ClientOnClose
  \/ SubsysOpened
  \/ \E err \in SubsysErrors : SubsysFailed(err)

ReplaceSpec == SessionInit /\ [][ReplaceNext]_vars

\* ------------------------------------------------- overlapping connect()

\* the ready event has resolved the clientConnect() of the overlapping call:
\* its continuation runs before any other event
OverlapDue == deviceCall.overlap = "clientConnect" /\ sock = "ready"

\* Connection.connect() called while another connect() is in progress:
\* returns at once when open, else clientConnect() on the same client
connectOverlapping ==
  /\ connectPc \notin {"idle", "done"}
  /\ deviceCall.overlap = "idle"
  /\ IF connectionState = "open"
     THEN /\ deviceCall' = [deviceCall EXCEPT !.overlap = "returned"]
          /\ UNCHANGED <<sock, sockGen, connectQueued>>
     ELSE /\ deviceCall' = [deviceCall EXCEPT !.overlap = "clientConnect"]
          /\ sock' = clientConnectSock
          /\ sockGen' = clientConnectGen
          /\ connectQueued' = clientConnectQueued
  /\ UNCHANGED <<connectionState, channel>>
  /\ UNCHANGED <<connVars, reqVars, reconnVars, discVars>>
  /\ UNCHANGED <<devVars, phxVars, dirtyModules, descriptor, compile, registry,
                 applied>>

\* the overlapping connect() after its clientConnect(): sets the reconnect
\* flag and calls createDevServerChannel()
OverlapResumes ==
  /\ OverlapDue
  /\ deviceCall' = [deviceCall EXCEPT !.overlap = "subsys"]
  /\ reconnectOnClose' = TRUE
  /\ UNCHANGED <<reconnectAttempts, reconnectTimer>>
  /\ UNCHANGED <<sessionVars, connVars, reqVars, discVars>>
  /\ UNCHANGED <<devVars, phxVars, dirtyModules, descriptor, compile, registry,
                 applied>>

\* createDevServerChannel() of the overlapping call: client.subsys() calls
\* back with a channel of its own, which becomes this.channel
OverlapSubsysOpened ==
  /\ deviceCall.overlap = "subsys"
  /\ sock = "ready"
  /\ channel' = sockGen
  /\ deviceCall' = [deviceCall EXCEPT !.overlap = "done", !.opened = sockGen]
  /\ UNCHANGED <<connectionState, sock, sockGen, connectQueued>>
  /\ UNCHANGED <<connVars, reqVars, reconnVars, discVars>>
  /\ UNCHANGED <<devVars, phxVars, dirtyModules, descriptor, compile, registry,
                 applied>>

\* two connect() calls on a device that answers: no transport error, the
\* first call on any of its paths, requests once the session is open
OverlapNext ==
  \/ OverlapDue /\ OverlapResumes
  \/ ~OverlapDue /\ connect
  \/ ~OverlapDue /\ connectOverlapping
  \/ ~OverlapDue /\ ClientOnConnect
  \/ ~OverlapDue /\ ClientOnReady
  \/ ~OverlapDue /\ ClientOnClose
  \/ ~OverlapDue /\ SubsysOpened
  \/ ~OverlapDue /\ \E err \in SubsysErrors : SubsysFailed(err)
  \/ ~OverlapDue /\ \E code \in ExitCodes : InstallExit(code)
  \/ ~OverlapDue /\ OverlapSubsysOpened
  \/ ~OverlapDue /\ ClientOnEnd
  \/ ~OverlapDue /\ Request
  \/ ~OverlapDue /\ \E m \in RequestIds : handleMessage(m)

OverlapSpec == Init /\ [][OverlapNext]_vars

\* ------------------------------------------------------------------ tokens

Secrets == {"secret1", "secret2"}
Salts == {"salt1"}
SignPayloads == {"hello", "bye"}
DigestTypes == {"sha256", "sha384", "sha512"}
TtlSeconds == 86400
Iterations == 1000
Keylen == 32

digestToProtected(digestType) ==
  CASE digestType = "sha256" -> "SFMyNTY"
    [] digestType = "sha384" -> "SFMzODQ"
    [] OTHER -> "SFM1MTI"

\* pbkdf2 and createHmac(...).update(...).digest(): functions of all their
\* arguments, different arguments giving different values
pbkdf2(secret, salt, iterations, keylen, digestType) ==
  [secret |-> secret, salt |-> salt, iterations |-> iterations,
   keylen |-> keylen, digest |-> digestType]
hmacDigest(digestType, key, plaintext) ==
  [digest |-> digestType, key |-> key, plaintext |-> plaintext]

\* the term [payload, Date.now(), 86400] in its binary form
termToBinary(payload, now, ttl) == <<payload, now, ttl>>

signIgnoresClock(secret, salt, payload, digestType, now) ==
  LET hmacKey == pbkdf2(secret, salt, Iterations, Keylen, digestType)
      plaintext == <<digestToProtected(digestType),
                     termToBinary(payload, 0, TtlSeconds)>>
  IN <<plaintext[1], plaintext[2], hmacDigest(digestType, hmacKey, plaintext)>>

\* sign(secret, salt, payload, digestType) at the millisecond now: the three
\* segments of the token
sign(secret, salt, payload, digestType, now) ==
  LET hmacKey == pbkdf2(secret, salt, Iterations, Keylen, digestType)
      plaintext == <<digestToProtected(digestType),
                     termToBinary(payload, now, TtlSeconds)>>
  IN <<plaintext[1], plaintext[2], hmacDigest(digestType, hmacKey, plaintext)>>

\* the device's check of a token at the millisecond at: the third segment is
\* the HMAC of the first two under the key of secret and salt, and the token
\* is younger than its TTL
verifies(token, secret, salt, digestType, at) ==
  /\ token[1] = digestToProtected(digestType)
  /\ token[3] = hmacDigest(digestType,
                           pbkdf2(secret, salt, Iterations, Keylen, digestType),
                           <<token[1], token[2]>>)
  /\ at - token[2][2] < token[2][3] * 1000

\* the millisecond of the last call; the clock never runs backwards
LastNow == IF applied = <<>> THEN 0 ELSE applied[Len(applied)][2].now

Sign(secret, salt, payload, digestType, now) ==
  /\ Len(applied) < MaxApplied
  /\ now >= LastNow
  /\ applied' = Append(applied,
                       <<"sign",
                         [secret |-> secret, salt |-> salt, payload |-> payload,
                          digestType |-> digestType, now |-> now],
                         sign(secret, salt, payload, digestType, now)>>)
  /\ UNCHANGED notApplied

SignNext ==
  \E secret \in Secrets, salt \in Salts, payload \in SignPayloads,
     digestType \in DigestTypes, now \in 0..MaxClock :
    Sign(secret, salt, payload, digestType, now)

SignSpec == Init /\ [][SignNext]_vars

\* update() with every shape of argument, on a Device that may have been
\* connected, up to the end of the update
UpdateNext ==
  \/ DeviceConnect
  \/ SocketOnOpen
  \/ SocketOnError
  \/ SocketOnClose
  \/ \E h \in HostArgs, l \in LabelArgs, t \in TokenArgs : DeviceUpdate(h, l, t)
  \/ DeviceDisconnectDone
  \/ DeviceUpdateTimeout

UpdateSpec == Init /\ [][UpdateNext]_vars

\* the close event of a socket that was destroyed or has failed
ClientOnCloseDue == sock = "closing" /\ ClientOnClose

\* A session in which disconnect() is called: the forced-destroy timer fires
\* and a destroyed socket emits close; a peer need not answer an end()
FairDisconnectSpec ==
  /\ SessionInit
  /\ [][SessionNext]_vars
  /\ WF_vars(DestroyTimerFires)
  /\ WF_vars(ClientOnCloseDue)

\* ---------------------------------------------------------------- claims

Settled(id) == outcome[id] \notin {"none", "pending"}
Second == FirstRequestId + 1

\* C1: a request that resolved, resolved with the response that carries its own
\* request id, whatever the order in which the device answered
C1_CorrelationIntegrity ==
  \A id \in RequestIds : outcome[id] = "resolved" => resolvedWith[id] = id

\* the second request was answered while the first is still in flight
C1_Witness ==
  /\ outcome[Second] = "resolved"
  /\ outcome[FirstRequestId] = "pending"
  /\ FirstRequestId \in written \ responded

\* C2: a request that rejected with the timeout error has no entry left in the
\* pending-request map
C2_TimeoutCleanup ==
  \A id \in RequestIds : outcome[id] = "timeout" => id \notin requests

\* C3: a response delivered for a request that already timed out changes no
\* caller's outcome and no other request's pending entry
C3_LateResponseDropped ==
  [][\A m \in RequestIds :
       (outcome[m] = "timeout" /\ m \in responded' \ responded)
         => /\ outcome' = outcome
            /\ resolvedWith' = resolvedWith
            /\ requests' \ {m} = requests \ {m}]_vars

\* a late response was delivered while another request was in flight
C3_Witness ==
  \E m, j \in RequestIds :
    /\ m # j
    /\ outcome[m] = "timeout"
    /\ m \in responded
    /\ outcome[j] = "pending"
    /\ j \in requests

\* C4: when the session leaves the open state, every outstanding request is
\* rejected with the disconnected error and leaves the pending-request map
C4_TeardownDrains ==
  [][(connectionState = "open" /\ connectionState' # "open")
       => /\ \A id \in RequestIds :
               outcome[id] = "pending" => outcome'[id] = "disconnected"
          /\ requests' = {}]_vars

\* C5: every request that is pending eventually settles
C5_EveryRequestSettles ==
  \A id \in RequestIds : (outcome[id] = "pending") ~> Settled(id)

\* a request was settled by its timer after the session had closed
C5_Witness ==
  \E id \in RequestIds :
    /\ outcome[id] = "timeout"
    /\ id \notin responded
    /\ connectionState = "closed"

\* C6: the event that settles a request removes its entry, and once it has
\* settled no later event for the same id changes the map or the outcome
C6_PendingLifecycle ==
  [][\A id \in RequestIds :
       /\ (outcome[id] = "pending" /\ outcome'[id] # "pending") => id \notin requests'
       /\ Settled(id) => /\ (id \in requests') <=> (id \in requests)
                         /\ outcome'[id] = outcome[id]]_vars

\* C7: a request() made while the session is not open only fails: it allocates
\* no id, registers no entry, writes nothing and starts no connect; ids are
\* allocated and entries registered in the open state only
C7_NotConnectedNoEffect ==
  [][/\ notConnectedCalls' # notConnectedCalls
          => /\ connectionState # "open"
             /\ UNCHANGED <<connectionState, channel, sock, sockGen, connectQueued,
                            requests, nextRequestId, outcome, resolvedWith, timer,
                            written, responded, connVars, reconnVars, discVars>>
     /\ (nextRequestId' # nextRequestId \/ ~(requests' \subseteq requests)
           \/ written' # written)
          => connectionState = "open"]_vars

\* a request() was refused before any connect() was made
C7_Witness ==
  /\ notConnectedCalls > 0
  /\ connectCalls = 0
  /\ sock = "none"
  /\ nextRequestId = FirstRequestId

\* C8: a connect() whose first sub-channel open failed as subsystem-absent
\* installs once; it reconnects once when the install exited with 0 and retries
\* the sub-channel once when the reconnect came up; it never installs or
\* retries a second time, and it resolves only after one of each
C8_InstallThenRetryOnce ==
  /\ installCount <= 1 /\ reconnectCount <= 1 /\ retryCount <= 1
  /\ retryCount <= reconnectCount /\ reconnectCount <= installCount
  /\ (firstFailure = "UnableToStartSubsystem") <=> (installCount = 1)
  /\ (installExit = 0) <=> (reconnectCount = 1)
  /\ (firstFailure = "UnableToStartSubsystem" /\ connectResult = "resolved")
       => /\ installCount = 1 /\ reconnectCount = 1 /\ retryCount = 1
          /\ channel = sockGen
  /\ (firstFailure = "UnableToStartSubsystem" /\ connectPc = "done")
       => connectResult \in {"resolved", "rejected"}

\* connect() succeeded after one install, one reconnect and one retry
C8_Witness ==
  /\ firstFailure = "UnableToStartSubsystem"
  /\ connectPc = "done"
  /\ connectResult = "resolved"
  /\ installCount = 1 /\ reconnectCount = 1 /\ retryCount = 1

\* C9: connect() resolves only with the sub-channel opened; a first failure of
\* another class than subsystem-absent rejects it
C9_ResolvesOnlyWithChannel ==
  /\ (connectPc = "done" /\ connectResult = "resolved") => channel # 0
  /\ (connectPc = "done" /\ firstFailure = "ChannelOpenFailure")
       => connectResult = "rejected"

\* C10: an install script that exits non-zero makes connect() reject with the
\* installation error carrying that code, without reconnect and without retry
C10_InstallFailureRejects ==
  (installExit # NoExit /\ installExit # 0)
    => /\ connectPc = "done"
       /\ connectResult = "rejected"
       /\ connectError = <<"InstallationFailed", installExit>>
       /\ reconnectCount = 0
       /\ retryCount = 0

\* the install script exited with a non-zero code
C10_Witness ==
  /\ installExit > 0
  /\ connectResult = "rejected"
  /\ connectError[1] = "InstallationFailed"

\* C11: once connect() has rejected with the timeout error, the Device's
\* connectionState is closed or error, not connecting
C11_TimeoutLeavesClosedOrError ==
  deviceConnectResult = "timeout" => DeviceConnectionState \in {"closed", "error"}

\* C12: once connect() has rejected with the timeout error, its listeners are
\* off the socket and the transport it started is neither connecting nor open
C12_AbandonedAttemptReleased ==
  deviceConnectResult = "timeout"
    => /\ ~attemptListeners
       /\ ws \notin {"connecting", "open"}

\* C13: disconnect() called on a session that is already disconnected changes
\* nothing: no state change, no reconnect bookkeeping, no timer armed
C13_DisconnectIdempotent ==
  [][(disconnectCalls' # disconnectCalls /\ connectionState = "closed" /\ sock = "none")
       => UNCHANGED <<connectionState, channel, sock, sockGen, connectQueued,
                      destroyTimers, reconnVars, connVars, reqVars>>]_vars

\* C14: after disconnect() the session eventually reaches closed, through the
\* peer's close or through the forced destroy
C14_DisconnectReachesClosed ==
  (disconnectCalls > 0) ~> (connectionState = "closed")

\* the forced destroy has hit a session whose peer did not answer the end()
C14_Witness ==
  /\ disconnectCalls > 0
  /\ destroyTimers = 0
  /\ sock = "closing"
  /\ connectionState = "open"

\* C15: disconnect() clears the reconnect flag and the reconnect timer; only a
\* connect() sets the flag again, a close with the flag cleared schedules no
\* reconnect, and a session disconnected and closed stays closed until connect()
C15_DisconnectStopsReconnect ==
  [][/\ disconnectCalls' # disconnectCalls
          => ~reconnectOnClose' /\ ~reconnectTimer'
     /\ (~reconnectOnClose /\ reconnectOnClose') => connectPc = "clientConnect1"
     /\ ~reconnectOnClose
          => /\ reconnectAttempts' = reconnectAttempts
             /\ reconnectTimer' => reconnectTimer
     /\ (disconnectCalls > 0 /\ connectionState = "closed" /\ sock = "none"
           /\ connectCalls' = connectCalls)
          => connectionState' = "closed"]_vars

\* disconnect() was called on an opened session and its socket has closed
C15_Witness ==
  /\ disconnectCalls > 0
  /\ connectResult = "resolved"
  /\ connectionState = "closed"
  /\ sock = "none"
  /\ ~reconnectOnClose

\* C16: disconnect() on an open session moves the state to closing, and the
\* state does not go from open straight to closed afterwards
C16_ClosingBeforeClosed ==
  [][/\ (disconnectCalls' # disconnectCalls /\ connectionState = "open")
          => connectionState' = "closing"
     /\ (disconnectCalls > 0 /\ connectionState = "open")
          => connectionState' # "closed"]_vars

\* C17: once the state is error it stays error until connect() is called again
C17_ErrorSticks ==
  [][(connectionState = "error" /\ connectCalls' = connectCalls)
       => connectionState' = "error"]_vars

\* the payload of the latest delivered event whose name is in names (0 = none)
LastData(names) ==
  LET idx == {i \in 1..Len(delivered) : delivered[i][1] \in names} IN
  IF idx = {} THEN 0
  ELSE delivered[CHOOSE i \in idx : \A j \in idx : j <= i][2]

\* C18: after any sequence of events the cached telemetry is the payload of the
\* latest telemetry event and the cached metadata that of the latest metadata
\* event, whatever was cached before
C18_CacheOverwrite ==
  /\ telemetry = LastData({"telemetry"})
  /\ metadata = LastData({"metadata"})

\* two telemetry events with different payloads were delivered
C18_Witness ==
  /\ Len(delivered) = 2
  /\ delivered[1][1] = "telemetry" /\ delivered[2][1] = "telemetry"
  /\ delivered[1][2] # delivered[2][2]

\* C19: the delivery of a telemetry event sets the cached telemetry to its
\* payload, emits one telemetry notification from the Device and one change
\* from the registry, and leaves the pending requests and their outcomes alone
C19_UnsolicitedTelemetry ==
  [][(Len(delivered') > Len(delivered)
        /\ delivered'[Len(delivered')][1] = "telemetry")
       => LET p == delivered'[Len(delivered')][2] IN
          /\ telemetry' = p
          /\ emitted' = << <<"Device", "telemetry", p>>, <<"DeviceManager", "change", 0>> >>
          /\ UNCHANGED <<requests, outcome, resolvedWith, nextRequestId>>]_vars

\* a telemetry event was delivered on a session that never made a request
C19_Witness ==
  /\ delivered # <<>>
  /\ delivered[Len(delivered)][1] = "telemetry"
  /\ telemetry = delivered[Len(delivered)][2]
  /\ requests = {}
  /\ nextRequestId = FirstRequestId

\* C20: every delivered metadata event (named device_metadata or metadata),
\* telemetry event and alarms event replaces its cache field and is announced
C20_IntakeCoversEveryName ==
  /\ metadata = LastData({"metadata", "device_metadata"})
  /\ telemetry = LastData({"telemetry"})
  /\ alarms = LastData({"alarms"})
  /\ (delivered # <<>> /\ delivered[Len(delivered)][1] \in EventNames)
       => Len(emitted) > 0

\* C21: once Device.disconnect() has completed, the cached metadata and
\* telemetry are null and the cached alarms and dirty modules are empty
C21_DisconnectClearsCaches ==
  (disconnectCalls > 0 \/ deviceCall.disconnect = "done")
    => /\ metadata = 0 /\ telemetry = 0
       /\ alarms = 0 /\ dirtyModules = 0

\* C22: whenever the Device's connection state is closed, its cached metadata
\* and telemetry are null and its cached alarms and dirty modules are empty
C22_NoStaleDataWhenClosed ==
  DeviceConnectionState = "closed"
    => /\ metadata = 0 /\ telemetry = 0
       /\ alarms = 0 /\ dirtyModules = 0

\* C27: inbound data that is no JSON, and a response whose requestId has no
\* pending entry, change neither the connection state nor the pending requests
\* nor any outcome nor any cache, and nothing is dispatched to subscribers
C27_NoiseDiscarded ==
  [][(Len(delivered') > Len(delivered)
        /\ delivered'[Len(delivered')][1] \in NoiseKinds)
       => /\ UNCHANGED <<connectionState, channel, requests, outcome, resolvedWith,
                         nextRequestId, metadata, telemetry, alarms>>
          /\ emitted' = <<>>]_vars

\* both kinds of noise were delivered while a request was pending
C27_Witness ==
  /\ \E i \in 1..Len(delivered) : delivered[i][1] = "invalid_json"
  /\ \E i \in 1..Len(delivered) : delivered[i][1] = "unknown_response"
  /\ \E id \in RequestIds : outcome[id] = "pending" /\ id \in requests
  /\ connectionState = "open"

\* C23: update() reconnects if and only if the device was connected (open)
\* before the update; a device that was closed, in error or otherwise not
\* connected is not connected by update()
C23_UpdateReconnectsIffConnected ==
  deviceCall.update # "idle"
    => (deviceCall.reconnect <=> deviceCall.before = "open")

\* C24: update() changes exactly the descriptor fields it was given, leaves
\* the others as they were, and never changes the id
C24_UpdateChangesGivenFields ==
  /\ descriptor.id = FirstDescriptor.id
  /\ deviceCall.update # "idle"
       => /\ descriptor.host = IfGiven(deviceCall.args[1], deviceCall.old.host)
          /\ descriptor.label = IfGiven(deviceCall.args[2], deviceCall.old.label)
          /\ descriptor.tokenSecret =
               IfGiven(deviceCall.args[3], deviceCall.old.tokenSecret)

\* C30: every step that changes the Device's connection state, metadata,
\* telemetry, alarms or dirty modules carries a change notification of the
\* registry
C30_ChangeNotified ==
  [][(\/ DeviceConnectionState' # DeviceConnectionState
      \/ metadata' # metadata
      \/ telemetry' # telemetry
      \/ alarms' # alarms
      \/ dirtyModules' # dirtyModules)
       => \E i \in 1..Len(emitted') :
            emitted'[i] = <<"DeviceManager", "change", 0>>]_vars

\* C25: compileCode returns the response's status and its result, verbatim, as
\* the diagnostics; a response with status error is returned, not thrown
C25_CompileResultNormalized ==
  compile.variant # "none"
    => /\ compile.returned.status = compile.status
       /\ compile.returned.diagnostics = compile.result
       /\ ~compile.returned.thrown

\* a failed compilation came back over the Connection, and one over the Socket
C25_Witness ==
  /\ compile.variant # "none"
  /\ compile.status = "error"
  /\ compile.returned = [status |-> "error", diagnostics |-> compile.result,
                         thrown |-> FALSE]
  /\ compile.result \in Payloads

\* C26: a compile response replaces the dirtyModules cache by the list it
\* carries, leaves the cache as it was when it carries none, and the cache is
\* a list afterwards
C26_DirtyModulesFromResponse ==
  [][(compile.variant = "none" /\ compile'.variant # "none")
       => /\ dirtyModules' =
               IF compile'.dirty # Undefined THEN compile'.dirty ELSE dirtyModules
          /\ dirtyModules' # Undefined]_vars

\* C28: addDevice returns the id under which it registered the Device, and
\* getDevice of the returned id yields that Device
C28_AddDeviceReturnsId ==
  registry.last.op = "add"
    => /\ registry.returned = registry.last.id
       /\ getDevice(registry.devices, registry.returned) = registry.last.id

ChangeCount(es) == Cardinality({i \in 1..Len(es) : es[i] = Change})

\* C29: the step in which removeDevice deletes a Device comes after the
\* Device's disconnect() was called, leaves getDevice(id) null and getDevices()
\* without it, and emits one change; removeDevice on an unknown id changes
\* nothing and emits nothing
C29_RemoveDevice ==
  [][/\ \A id \in DeviceIds :
          (id \in registry.devices /\ id \notin registry'.devices)
            => /\ id \in registry.disconnected
               /\ getDevice(registry'.devices, id) = 0
               /\ ChangeCount(emitted') = 1
     /\ registry'.last.op = "removeUnknown"
          => /\ registry'.devices = registry.devices
             /\ registry'.disconnected = registry.disconnected
             /\ ChangeCount(emitted') = 0]_vars

\* one Device was removed, another is still there, and the last call was a
\* removeDevice of an id the registry does not have
C29_Witness ==
  /\ registry.last.op = "removeUnknown"
  /\ registry.last.id \notin registry.devices
  /\ registry.last.id \in registry.disconnected
  /\ registry.devices # {}
  /\ emitted = <<>>

\* C31: a registry built from the exported descriptors holds Devices with the
\* same id, host and label and, where the Device has one, the same secret
C31_RoundTrip ==
  registry.imported # <<>>
    => LET reg == registry.imported[1]
           d == registry.imported[2]
       IN /\ d.id = descriptor.id
          /\ d.host = descriptor.host
          /\ d.label = descriptor.label
          /\ (reg # "connection" => d.tokenSecret = descriptor.tokenSecret)

\* C32: every request that carries requestId, cmd and payload is answered by
\* a response with the request's requestId, and a command the subsystem does
\* not know is answered with status error
C32_SubsystemAnswers ==
  \A i \in 1..Len(applied) :
    (applied[i][1] = "handle_ssh_msg" /\ applied[i][2].kind = "request")
      => /\ applied[i][3].requestId = applied[i][2].requestId
         /\ applied[i][2].cmd \notin {"version", "compile_code", "get_alarms"}
              => applied[i][3].status = "error"

\* C33: for every host string the validator accepts, the session connects to
\* the host the validator's parser yields and to the port it yields, the
\* default port when it yields none
C33_SessionResolvesAsValidated ==
  (Applied("validateHostAndPort") /\ Applied("clientConnect")
     /\ Result("validateHostAndPort").accepted)
    => LET parts == Result("validateHostAndPort").parts
           target == Result("clientConnect")
       IN /\ target.host = parts.host
          /\ target.port = IF parts.port = Undefined THEN DefaultPort
                           ELSE parts.port

SameSignArgs(i, j) ==
  /\ applied[i][1] = "sign"
  /\ applied[j][1] = "sign"
  /\ applied[i][2].secret = applied[j][2].secret
  /\ applied[i][2].salt = applied[j][2].salt
  /\ applied[i][2].payload = applied[j][2].payload
  /\ applied[i][2].digestType = applied[j][2].digestType

TokenVerifies(i) ==
  \A j \in i..Len(applied) :
    verifies(applied[i][3], applied[i][2].secret, applied[i][2].salt,
             applied[i][2].digestType, applied[j][2].now)

\* C34 as stated: two calls of sign with the same arguments in the same
\* millisecond give two different tokens, and each of them verifies
C34_SameMillisecondTokensDiffer ==
  \A i, j \in 1..Len(applied) :
    (i < j /\ SameSignArgs(i, j) /\ applied[i][2].now = applied[j][2].now)
      => /\ applied[i][3] # applied[j][3]
         /\ TokenVerifies(i)
         /\ TokenVerifies(j)

\* C34: two calls of sign with the same arguments give different tokens
\* exactly when their milliseconds differ (the same token in the same
\* millisecond), and each token verifies under the secret and salt within
\* its TTL
C34_TokensDifferWithTimestamp ==
  \A i, j \in 1..Len(applied) :
    (i < j /\ SameSignArgs(i, j))
      => /\ (applied[i][3] # applied[j][3])
              <=> (applied[i][2].now # applied[j][2].now)
         /\ TokenVerifies(i)
         /\ TokenVerifies(j)

C34_Witness ==
  /\ Len(applied) = 2
  /\ SameSignArgs(1, 2)
  /\ applied[1][2].now < applied[2][2].now
  /\ applied[1][3] # applied[2][3]

\* C35: a close outside connect() and without a disconnect(), with the
\* reconnect flag set and fewer than the maximum of attempts made, schedules
\* a retry: the timer is armed and the attempt counted
C35_UnexpectedCloseSchedulesRetry ==
  [][(/\ sock \in {"ending", "closing"}
      /\ sock' \in {"none", "connecting"}
      /\ connectPc = "done"
      /\ disconnectCalls = 0
      /\ reconnectOnClose
      /\ reconnectAttempts < ReconnectMaxAttempts)
       => /\ reconnectTimer'
          /\ reconnectAttempts' = reconnectAttempts + 1]_vars

C37_OpenHasCurrentChannel ==
  connectionState = "open" => (channel # 0 /\ channel = sockGen)

\* C39: the forced destroy of a disconnect() leaves alone the socket of a
\* session that a connect() has opened since
C39_DestroySparesLaterConnection ==
  [][(destroyTimers' < destroyTimers /\ reconnectOnClose) => sock' = sock]_vars

\* C38: a connect() called while another connect() is in progress starts no
\* handshake on the client (the socket and what is queued on it stay as they
\* are) and opens no devtools channel of its own
C38_OverlappingConnectJoins ==
  [][/\ (deviceCall.overlap = "idle" /\ deviceCall'.overlap # "idle")
          => /\ sock' = sock
             /\ sockGen' = sockGen
             /\ connectQueued' = connectQueued
     /\ deviceCall'.opened = deviceCall.opened]_vars

\* C40: after update() has replaced the session, an event of the replaced
\* session makes the Device emit nothing, so that every connectionState the
\* Device emits is the state of the session it owns
C40_ReplacedSessionSilenced ==
  [][(deviceCall.replaced.live /\ deviceCall'.replaced # deviceCall.replaced)
       => emitted' = <<>>]_vars

====
